---- MODULE Spec2Model ----
(***************************************************************************)
(* engiffen: conversion of a sequence of RGBA images into an animated Gif  *)
(* (src/src/lib.rs).  The model follows `engiffen` statement by statement  *)
(* (emptiness check, dimension check, colour sampling, NeuQuant palette    *)
(* construction, cached pixel-to-index mapping, assembly of the Gif) and   *)
(* then `Gif::write` call by call against the gif encoder.                 *)
(*                                                                         *)
(* The NeuQuant network and the gif encoder are external crates.  The      *)
(* network is a deterministic but otherwise arbitrary function from RGBA   *)
(* colours to palette indices, chosen when the network is built; every     *)
(* encoder call may succeed or fail with an io::Error.                     *)
(***************************************************************************)
EXTENDS Integers, Sequences, FiniteSets, TLC

\* ------------------------------------------------------------------ bounds
MaxImgs == 3        \* longest image sequence of the dimension scenarios
MaxW == 2           \* widest image of the dimension scenarios
MaxH == 2           \* tallest image of the dimension scenarios
MaxFrames == 2      \* longest image sequence of the pixel scenarios
MaxFps == 1001      \* largest frame rate of the timing scenarios

\* -------------------------------------------------------- program constants
NetSize == 256      \* NeuQuant::new(10, 256, &colors): number of palette entries
U8 == 256           \* `as u8`
U16 == 65536        \* `as u16`
Millis == 1000      \* 1000 / fps
DelayUnit == 10     \* self.delay / 10

\* ------------------------------------------------------------------ colours
\* px.data: [u8; 4] = R, G, B, A
Transparent == <<0, 0, 0, 0>>
TransparentRed == <<1, 0, 0, 0>>
PartialRed == <<1, 0, 0, 128>>
OpaqueRed == <<1, 0, 0, 255>>

Colors == {Transparent, TransparentRed, PartialRed, OpaqueRed}

\* The colour the sampler pushes for a pixel (lines 244-254): (0,0,0,0) for
\* alpha = 0, (R,G,B,255) otherwise.
SampledColor(px) ==
    IF px[4] = 0 THEN <<0, 0, 0, 0>> ELSE <<px[1], px[2], px[3], 255>>

\* Every colour the network can be asked about.
QueryColors == Colors \cup {SampledColor(c) : c \in Colors}

\* Palette indices the network answers with (index_of returns a usize below
\* the network size).
Indices == {0, NetSize - 1}

\* Option<T>: None is the empty set, Some(v) the singleton {v}.
None == {}
Some(v) == {v}
UnwrapOr(opt, d) == IF opt = {} THEN d ELSE CHOOSE v \in opt : TRUE

\* ------------------------------------------------------------------- images
\* Image.inner: width, height and the pixels in the order of pixels()
\* (row-major: x runs fastest).
MkImage(w, h, data) == [width |-> w, height |-> h, data |-> data]

Dimensions(img) == <<img.width, img.height>>

PixelCount(img) == img.width * img.height

PixelX(img, k) == (k - 1) % img.width
PixelY(img, k) == (k - 1) \div img.width

\* An image of one colour.
Blank(w, h) == MkImage(w, h, [k \in 1..(w * h) |-> OpaqueRed])

SeqsUpTo(S, lo, hi) == UNION {[1..n -> S] : n \in lo..hi}

VARIABLES
    imgs,            \* argument imgs: &[Image]
    fps,             \* argument fps: usize
    sample_rate,     \* argument sample_rate: Option<u32>
    pc,              \* position in engiffen / Gif::write
    i,               \* index of the image the current loop is at
    j,               \* index of the pixel the mapping loop is at
    colors,          \* colors: Vec<u8>, the sample buffer
    quant,           \* the NeuQuant network: None before it is built
    transparency,    \* transparency: Option<u8>
    cache,           \* cache: HashMap<[u8; 4], u8>
    palettized_imgs, \* Vec<Vec<u8>> collected so far
    lookups,         \* history of quant.index_of calls
    result,          \* what engiffen returned
    gif,             \* the Gif engiffen returned: None before
    calls,           \* history of encoder calls made by Gif::write
    wresult          \* what Gif::write returned

vars == <<imgs, fps, sample_rate, pc, i, j, colors, quant, transparency, cache,
          palettized_imgs, lookups, result, gif, calls, wresult>>

Pending == <<"Pending">>

\* State at the entry of engiffen(imgs, fps, sample_rate).
Entry(is, f, sr) ==
    /\ imgs = is
    /\ fps = f
    /\ sample_rate = sr
    /\ pc = "start"
    /\ i = 1
    /\ j = 1
    /\ colors = <<>>
    /\ quant = None
    /\ transparency = None
    /\ cache = [c \in {} |-> 0]
    /\ palettized_imgs = <<>>
    /\ lookups = <<>>
    /\ result = Pending
    /\ gif = None
    /\ calls = <<>>
    /\ wresult = Pending

\* Pixel scenarios: up to MaxFrames frames of 2 x 1 pixels of any colours.
PixelImages == {MkImage(2, 1, d) : d \in [1..2 -> Colors]}

Init ==
    \E is \in SeqsUpTo(PixelImages, 1, MaxFrames), sr \in {None, Some(2)} :
        Entry(is, 10, sr)

\* Dimension scenarios: up to MaxImgs blank images of any dimensions.
BlankImages == {Blank(w, h) : w \in 1..MaxW, h \in 1..MaxH}

InitDims ==
    \E is \in SeqsUpTo(BlankImages, 0, MaxImgs), f \in {10, 30},
       sr \in {None, Some(1), Some(2)} :
        Entry(is, f, sr)

\* Timing scenarios: one or two 1 x 1 images at any frame rate.
InitTiming ==
    \E is \in SeqsUpTo({Blank(1, 1)}, 1, 2), f \in 1..MaxFps : Entry(is, f, None)

\* ---------------------------------------------------------------- engiffen
\* lines 236-256, for one image: the bytes pushed for pixels k.. of img
RECURSIVE SampleFrom(_, _, _)
SampleFrom(img, skip_pixels, k) ==
    IF k > PixelCount(img) THEN <<>>
    ELSE IF /\ skip_pixels > 1
            /\ \/ PixelX(img, k) % skip_pixels # 0
               \/ PixelY(img, k) % skip_pixels # 0
         THEN SampleFrom(img, skip_pixels, k + 1)
         ELSE SampledColor(img.data[k]) \o SampleFrom(img, skip_pixels, k + 1)

\* lines 217-219
CheckEmpty ==
    /\ pc = "start"
    /\ IF Len(imgs) = 0
         THEN /\ result' = <<"NoImages">>
              /\ pc' = "failed"
         ELSE /\ result' = result
              /\ pc' = "check"
    /\ UNCHANGED <<imgs, fps, sample_rate, i, j, colors, quant, transparency,
                   cache, palettized_imgs, lookups, gif, calls, wresult>>

MismatchErrorSwapped(first_dimensions, other_dimensions) ==
    <<"Mismatch", other_dimensions, first_dimensions>>

\* line 227
MismatchError(first_dimensions, other_dimensions) ==
    <<"Mismatch", first_dimensions, other_dimensions>>

\* The dimension check folded into the sampling loop: each image is sampled
\* before its dimensions are compared.
CheckDimensionWhileSampling ==
    /\ pc = "check"
    /\ colors' = colors \o SampleFrom(imgs[i], UnwrapOr(sample_rate, 1), 1)
    /\ IF Dimensions(imgs[1]) # Dimensions(imgs[i])
         THEN /\ result' = <<"Mismatch", Dimensions(imgs[1]), Dimensions(imgs[i])>>
              /\ pc' = "failed"
              /\ i' = i
         ELSE /\ result' = result
              /\ pc' = IF i = Len(imgs) THEN "quant" ELSE "check"
              /\ i' = IF i = Len(imgs) THEN 1 ELSE i + 1
    /\ UNCHANGED <<imgs, fps, sample_rate, j, quant, transparency, cache,
                   palettized_imgs, lookups, gif, calls, wresult>>

\* lines 224-229: one iteration of the dimension loop
CheckDimension ==
    /\ pc = "check"
    /\ IF Dimensions(imgs[1]) # Dimensions(imgs[i])
         THEN /\ result' = MismatchError(Dimensions(imgs[1]), Dimensions(imgs[i]))
              /\ pc' = "failed"
              /\ i' = i
         ELSE /\ result' = result
              /\ pc' = IF i = Len(imgs) THEN "sample" ELSE "check"
              /\ i' = IF i = Len(imgs) THEN 1 ELSE i + 1
    /\ UNCHANGED <<imgs, fps, sample_rate, j, colors, quant, transparency,
                   cache, palettized_imgs, lookups, gif, calls, wresult>>

\* lines 237-256: one iteration of the sampling loop over the images
SamplePixels ==
    /\ pc = "sample"
    /\ colors' = colors \o SampleFrom(imgs[i], UnwrapOr(sample_rate, 1), 1)
    /\ pc' = IF i = Len(imgs) THEN "quant" ELSE "sample"
    /\ i' = IF i = Len(imgs) THEN 1 ELSE i + 1
    /\ UNCHANGED <<imgs, fps, sample_rate, j, quant, transparency, cache,
                   palettized_imgs, lookups, result, gif, calls, wresult>>

\* line 261: NeuQuant::new(10, 256, &colors)
BuildPalette ==
    /\ pc = "quant"
    /\ \E net \in [QueryColors -> Indices] : quant' = Some(net)
    /\ pc' = "map"
    /\ UNCHANGED <<imgs, fps, sample_rate, i, j, colors, transparency, cache,
                   palettized_imgs, lookups, result, gif, calls, wresult>>

Net == CHOOSE net \in quant : TRUE

\* line 271: the colour handed to quant.index_of
LookupColor(px) == px

\* line 271: quant.index_of(..) as u8
IndexOf(net, color) == net[color] % U8

\* line 272
MarkTransparency(old, px, idx) == IF px[4] = 0 THEN Some(idx) ELSE old

CacheForget(map, px, idx) == map

\* line 270: what entry(px.data).or_insert_with leaves in the cache
CacheInsert(map, px, idx) == map @@ (px :> idx)

PushIndexFront(frames, k, idx) ==
    IF k = 1 THEN <<(<<idx>>)>> \o frames
    ELSE [frames EXCEPT ![1] = Append(@, idx)]

\* lines 268-276: the index of pixel k joins the frame being collected
PushIndex(frames, k, idx) ==
    IF k = 1 THEN Append(frames, <<idx>>)
    ELSE [frames EXCEPT ![Len(frames)] = Append(@, idx)]

\* lines 268-276: one pixel of the mapping pass
MapPixel ==
    /\ pc = "map"
    /\ LET px == imgs[i].data[j]
           hit == px \in DOMAIN cache
           idx == IF hit THEN cache[px] ELSE IndexOf(Net, LookupColor(px))
           last == j = PixelCount(imgs[i])
       IN /\ cache' = IF hit THEN cache ELSE CacheInsert(cache, px, idx)
          /\ lookups' = IF hit THEN lookups
                        ELSE Append(lookups,
                                    [px |-> px, query |-> LookupColor(px), idx |-> idx])
          /\ transparency' = IF hit THEN transparency
                             ELSE MarkTransparency(transparency, px, idx)
          /\ palettized_imgs' = PushIndex(palettized_imgs, j, idx)
          /\ j' = IF last THEN 1 ELSE j + 1
          /\ i' = IF last THEN i + 1 ELSE i
          /\ pc' = IF last /\ i = Len(imgs) THEN "assemble" ELSE "map"
    /\ UNCHANGED <<imgs, fps, sample_rate, colors, quant, result, gif, calls,
                   wresult>>

\* line 280
Delay(f) == (Millis \div f) % U16

\* line 283: quant.color_map_rgb(), 3 bytes for each entry of the network
ColorMapRgb(net) == [bytes |-> 3 * NetSize, net |-> net]

\* lines 280-289
Assemble ==
    /\ pc = "assemble"
    /\ gif' = Some([palette |-> ColorMapRgb(Net),
                    transparency |-> transparency,
                    width |-> imgs[1].width % U16,
                    height |-> imgs[1].height % U16,
                    images |-> palettized_imgs,
                    delay |-> Delay(fps)])
    /\ result' = <<"Ok">>
    /\ pc' = "done"
    /\ UNCHANGED <<imgs, fps, sample_rate, i, j, colors, quant, transparency,
                   cache, palettized_imgs, lookups, calls, wresult>>

\* --------------------------------------------------------------- Gif::write
Self == CHOOSE g \in gif : TRUE

Call(op, arg, ok) == [op |-> op, arg |-> arg, ok |-> ok]

TryIgnore(ok, next) == next

\* the ? operator: on Err the function returns at once
Try(ok, next) == IF ok THEN next ELSE "written"

Returned(ok, old) == IF ok THEN old ELSE <<"ImageWrite">>

FrameDelayRaw(delay) == delay

\* line 134
FrameDelay(delay) == delay \div DelayUnit

\* lines 133-138
MkFrame(g, img) ==
    [delay |-> FrameDelay(g.delay),
     width |-> g.width,
     height |-> g.height,
     buffer |-> img,
     transparent |-> g.transparency]

\* line 130
WriteOpen ==
    /\ pc = "done"
    /\ \E ok \in BOOLEAN :
        /\ calls' = Append(calls,
                           Call("open", [width |-> Self.width,
                                         height |-> Self.height,
                                         palette |-> Self.palette], ok))
        /\ pc' = Try(ok, "set")
        /\ wresult' = Returned(ok, wresult)
    /\ UNCHANGED <<imgs, fps, sample_rate, i, j, colors, quant, transparency,
                   cache, palettized_imgs, lookups, result, gif>>

\* line 131
WriteSetLoop ==
    /\ pc = "set"
    /\ \E ok \in BOOLEAN :
        /\ calls' = Append(calls, Call("set_loop", "Infinite", ok))
        /\ pc' = Try(ok, "frames")
        /\ wresult' = Returned(ok, wresult)
    /\ i' = 1
    /\ UNCHANGED <<imgs, fps, sample_rate, j, colors, quant, transparency,
                   cache, palettized_imgs, lookups, result, gif>>

\* lines 132-140: one iteration of the frame loop
WriteFrame ==
    /\ pc = "frames"
    /\ i <= Len(Self.images)
    /\ \E ok \in BOOLEAN :
        /\ calls' = Append(calls,
                           Call("write_frame", MkFrame(Self, Self.images[i]), ok))
        /\ pc' = Try(ok, "frames")
        /\ wresult' = Returned(ok, wresult)
    /\ i' = i + 1
    /\ UNCHANGED <<imgs, fps, sample_rate, j, colors, quant, transparency,
                   cache, palettized_imgs, lookups, result, gif>>

\* line 141
WriteDone ==
    /\ pc = "frames"
    /\ i > Len(Self.images)
    /\ pc' = "written"
    /\ wresult' = <<"Ok">>
    /\ UNCHANGED <<imgs, fps, sample_rate, i, j, colors, quant, transparency,
                   cache, palettized_imgs, lookups, result, gif, calls>>

Next ==
    \/ CheckEmpty
    \/ CheckDimension
    \/ SamplePixels
    \/ BuildPalette
    \/ MapPixel
    \/ Assemble
    \/ WriteOpen
    \/ WriteSetLoop
    \/ WriteFrame
    \/ WriteDone

Spec == Init /\ [][Next]_vars
SpecDims == InitDims /\ [][Next]_vars
SpecTiming == InitTiming /\ [][Next]_vars

\* ------------------------------------------------------------------ helpers
Returned_Gif == gif # None

HasMismatch ==
    \E n \in 1..Len(imgs) : Dimensions(imgs[n]) # Dimensions(imgs[1])

\* the first image, in iteration order, whose dimensions differ from the first's
FirstDiffering ==
    CHOOSE n \in 1..Len(imgs) :
        /\ Dimensions(imgs[n]) # Dimensions(imgs[1])
        /\ \A m \in 1..(n - 1) : Dimensions(imgs[m]) = Dimensions(imgs[1])

\* positions <<frame, pixel>> of the input, and their iteration order
Positions ==
    UNION {{<<n, k>> : k \in 1..PixelCount(imgs[n])} : n \in 1..Len(imgs)}

Before(p, q) == p[1] < q[1] \/ (p[1] = q[1] /\ p[2] < q[2])

PixelAt(p) == imgs[p[1]].data[p[2]]

TransparentPositions == {p \in Positions : PixelAt(p)[4] = 0}

\* ------------------------------------------------------------------- claims

\* C1: after a successful engiffen, if the Gif's transparency marker is set,
\* every pixel with alpha = 0 in every frame is mapped to exactly that index.
C1_TransparencyInvariant ==
    (Returned_Gif /\ Self.transparency # None) =>
        \A p \in TransparentPositions :
            Self.images[p[1]][p[2]] \in Self.transparency

\* C2: the transparency marker of the returned Gif is the index assigned to the
\* first fully transparent pixel in iteration order (frame order, then
\* row-major); later transparent pixels never overwrite it.
C2_SetOnceMarker ==
    (Returned_Gif /\ TransparentPositions # {}) =>
        LET first == CHOOSE p \in TransparentPositions :
                        \A q \in TransparentPositions : q = p \/ Before(p, q)
        IN Self.transparency = Some(Self.images[first[1]][first[2]])

\* C3: when some image's dimensions differ from the first image's, engiffen
\* never gets past the dimension check, returns no Gif, and what it returns is
\* Mismatch(a, b) with a the first image's dimensions and b those of the first
\* differing image in iteration order.
C3_MismatchReport ==
    HasMismatch =>
        /\ gif = None
        /\ pc \in {"start", "check", "failed"}
        /\ result \in {Pending,
                       <<"Mismatch", Dimensions(imgs[1]),
                         Dimensions(imgs[FirstDiffering])>>}
        /\ pc = "failed" => result # Pending

C3_Witness ==
    /\ pc = "failed"
    /\ Len(imgs) = 3
    /\ Dimensions(imgs[2]) # Dimensions(imgs[1])
    /\ Dimensions(imgs[3]) # Dimensions(imgs[1])
    /\ Dimensions(imgs[3]) # Dimensions(imgs[2])

\* C4: zero images give NoImages, and whenever engiffen returns NoImages or
\* Mismatch no pixel has been sampled, the palette has not been built and no
\* nearest-index lookup has been made.
C4_ValidationFirst ==
    /\ (Len(imgs) = 0 /\ pc # "start") => (pc = "failed" /\ result = <<"NoImages">>)
    /\ result[1] \in {"NoImages", "Mismatch"} =>
        /\ colors = <<>>
        /\ quant = None
        /\ lookups = <<>>
        /\ cache = [c \in {} |-> 0]
        /\ gif = None

C4_Witness ==
    /\ result[1] = "Mismatch"
    /\ i = 3
    /\ sample_rate = None

\* C5: for a non-empty sequence of images of equal dimensions engiffen returns
\* Ok with a Gif that has one indexed frame for each input image, frame n
\* holding, pixel by pixel in row-major order, the network's index for the
\* pixels of image n.
C5_FramesInOrder ==
    (Len(imgs) > 0 /\ ~HasMismatch) =>
        /\ result \in {Pending, <<"Ok">>}
        /\ pc \notin {"start", "check", "sample", "quant", "map", "assemble"}
             => (result = <<"Ok">> /\ Returned_Gif)
        /\ Returned_Gif =>
            /\ Len(Self.images) = Len(imgs)
            /\ \A n \in 1..Len(imgs) :
                /\ Len(Self.images[n]) = PixelCount(imgs[n])
                /\ \A k \in 1..PixelCount(imgs[n]) :
                    Self.images[n][k] = Net[imgs[n].data[k]]

C5_Witness ==
    /\ Returned_Gif
    /\ Len(imgs) = 2
    /\ imgs[1] # imgs[2]
    /\ Self.images[1] # Self.images[2]

\* C6: every returned Gif has frames of length width x height (the stored
\* 16-bit values), a delay > 0 and a palette of at most 256 entries.
C6_AnimatedImageInvariant ==
    Returned_Gif =>
        /\ \A n \in 1..Len(Self.images) :
            Len(Self.images[n]) = Self.width * Self.height
        /\ Self.delay > 0
        /\ Self.palette.bytes <= 3 * 256

\* C7: the Gif's delay d is floor(1000 / fps), every frame handed to the
\* encoder carries floor(d / 10), the same for every frame; fps = 10 gives 100
\* and 10, fps = 30 gives 33 and 3.
C7_DelayComputation ==
    Returned_Gif =>
        LET d == Self.delay
            written == {n \in 1..Len(calls) : calls[n].op = "write_frame"}
        IN /\ d * fps <= 1000
           /\ 1000 < (d + 1) * fps
           /\ fps = 10 => d = 100
           /\ fps = 30 => d = 33
           /\ \A n \in written :
                /\ calls[n].arg.delay * 10 <= d
                /\ d < (calls[n].arg.delay + 1) * 10
                /\ fps = 10 => calls[n].arg.delay = 10
                /\ fps = 30 => calls[n].arg.delay = 3

C7_Witness ==
    /\ fps = 30
    /\ wresult = <<"Ok">>
    /\ Len(calls) = 4
    /\ calls[3].arg.delay = 3
    /\ calls[4].arg.delay = 3

\* C8: Gif::write issues one open (width, height, palette of the Gif), then one
\* set_loop(Infinite), then one write_frame for each indexed frame in stored
\* order with the shared width and height, that frame's buffer and the
\* transparency marker; the first failing call ends the write with that error
\* and nothing is issued after it.
C8_WriterSequencing ==
    Returned_Gif =>
        /\ Len(calls) <= 2 + Len(Self.images)
        /\ \A n \in 1..Len(calls) :
            /\ n < Len(calls) => calls[n].ok
            /\ n = 1 =>
                /\ calls[n].op = "open"
                /\ calls[n].arg.width = Self.width
                /\ calls[n].arg.height = Self.height
                /\ calls[n].arg.palette = Self.palette
            /\ n = 2 =>
                /\ calls[n].op = "set_loop"
                /\ calls[n].arg = "Infinite"
            /\ n > 2 =>
                /\ calls[n].op = "write_frame"
                /\ calls[n].arg.width = Self.width
                /\ calls[n].arg.height = Self.height
                /\ calls[n].arg.buffer = Self.images[n - 2]
                /\ calls[n].arg.transparent = Self.transparency
        /\ wresult = <<"Ok">> <=>
            /\ pc = "written"
            /\ Len(calls) = 2 + Len(Self.images)
            /\ calls[Len(calls)].ok
        /\ wresult = <<"ImageWrite">> <=>
            /\ pc = "written"
            /\ calls # <<>>
            /\ ~calls[Len(calls)].ok

C8_Witness ==
    /\ wresult = <<"ImageWrite">>
    /\ Len(Self.images) = 2
    /\ Self.images[1] # Self.images[2]
    /\ Len(calls) = 3

\* C9: within one run the network is asked at most once for each distinct
\* RGBA value, and every mapped pixel, in whatever frame, has the index that
\* the one lookup for its RGBA value returned.
C9_MemoizedLookup ==
    /\ \A a, b \in 1..Len(lookups) : lookups[a].px = lookups[b].px => a = b
    /\ \A n \in 1..Len(palettized_imgs) :
        \A k \in 1..Len(palettized_imgs[n]) :
            \E a \in 1..Len(lookups) :
                /\ lookups[a].px = imgs[n].data[k]
                /\ lookups[a].idx = palettized_imgs[n][k]

C9_Witness ==
    /\ Returned_Gif
    /\ Len(imgs) = 2
    /\ imgs[1].data[1] = imgs[2].data[2]
    /\ imgs[1].data[2] # imgs[1].data[1]
    /\ Len(lookups) = 2

\* C10: on every cache miss the colour passed to the network's lookup is the
\* alpha-normalized colour of the pixel, the one the sampler pushes for it:
\* (0,0,0,0) for alpha = 0 and (R,G,B,255) otherwise.
C10_AlphaAwareLookup ==
    \A a \in 1..Len(lookups) : lookups[a].query = SampledColor(lookups[a].px)
====
